---- MODULE Spec2Model ----
(***************************************************************************)
(* Model of the haus virtual desktop: the Breathing session controller     *)
(* (src/components/tools/breathing/breathing.tsx) hosted by the app        *)
(* registry (src/components/app/app.tsx).                                  *)
(*                                                                         *)
(* Time is counted in milliseconds.  The two setInterval timers of the     *)
(* controller are records [armed, period, rem]; a timer whose rem is 0 is  *)
(* due and its callback runs as a step of its own, so two timers due at    *)
(* the same instant run in either order.  Every handler is one step that   *)
(* includes the re-render and the effects React runs after it.             *)
(***************************************************************************)
EXTENDS Integers, Sequences, FiniteSets, TLC

\* ---------------------------------------------------------------- bounds
\* the positive value typed into a custom duration field (seconds)
MaxCustom == 1
\* the elapsed counter stops the clock of Spec at this many seconds
MaxTimer == 11
\* the elapsed counter stops the clock of SpecElapsed at this many seconds
MaxElapsed == 126
\* SpecApp stops opening or minimizing when a list has this many entries
MaxList == 3

\* ------------------------------------------------------- JavaScript values
\* the index value NaN, produced by (prevIndex + 1) % 0
NaN == -1
\* phases[i] for an index outside the array
undefined == "undefined"

\* (a + 1) in JavaScript
JsInc(a) == IF a = NaN THEN NaN ELSE a + 1

\* (a % n) in JavaScript for a >= 0: NaN when n is 0 or a is NaN
JsMod(a, n) == IF a = NaN \/ n = 0 THEN NaN ELSE a % n

\* ------------------------------------------------------------ static data
Phase == {"inhale", "exhale", "holdInhale", "holdExhale"}

Exercise ==
  {"Box Breathing", "Resonant Breathing", "4-7-8 Breathing",
   "Pursed Lip Breathing", "Diaphragmatic Breathing", "Custom"}

EXERCISE_PHASES ==
  ("4-7-8 Breathing" :> <<"inhale", "holdInhale", "exhale">>) @@
  ("Box Breathing" :> <<"inhale", "holdInhale", "exhale", "holdExhale">>) @@
  ("Custom" :> <<"inhale", "holdInhale", "exhale", "holdExhale">>) @@
  ("Diaphragmatic Breathing" :> <<"inhale", "exhale">>) @@
  ("Pursed Lip Breathing" :> <<"inhale", "exhale">>) @@
  ("Resonant Breathing" :> <<"inhale", "exhale">>)

EXERCISE_DURATIONS ==
  ("4-7-8 Breathing" :> ("exhale" :> 8 @@ "holdInhale" :> 7 @@ "inhale" :> 4)) @@
  ("Box Breathing" :>
     ("exhale" :> 4 @@ "holdExhale" :> 4 @@ "holdInhale" :> 4 @@ "inhale" :> 4)) @@
  ("Custom" :> [p \in {} |-> 0]) @@
  ("Diaphragmatic Breathing" :> ("exhale" :> 6 @@ "inhale" :> 4)) @@
  ("Pursed Lip Breathing" :> ("exhale" :> 4 @@ "inhale" :> 2)) @@
  ("Resonant Breathing" :> ("exhale" :> 5 @@ "inhale" :> 5))

\* the default of useLocalStorage('haus:breathing:custom-durations', ...)
DefaultCustomDurations ==
  ("exhale" :> 4 @@ "holdExhale" :> 4 @@ "holdInhale" :> 4 @@ "inhale" :> 4)

\* the values a custom duration field is edited to: zero and a positive one
CustomValues == {0, MaxCustom}

\* fallback seconds of the phase-advance interval
DefaultInterval == 4
\* period of the elapsed ticker, in ms
TickPeriod == 1000
\* ms per second
Second == 1000

VARIABLES
  openApps,          \* app.tsx: persisted list of open windows
  minimizedApps,     \* app.tsx: list of minimized windows
  selectedExercise,  \* breathing.tsx state
  customDurations,   \* persisted custom Duration Map
  phaseIndex,        \* index into phases, or NaN
  running,
  timer,             \* elapsed seconds
  muted,
  mutedRef,          \* mutedRef.current
  phaseInterval,     \* the setInterval of the phase-advance effect
  tickInterval,      \* the setInterval of the elapsed-ticker effect
  sincePhase,        \* history: ms since the current phase was entered
  runTime,           \* history: ms since the current run was started
  cue,               \* history: what updatePhase did with the chime in this step
  lastAct            \* history: the last step that changed the session or the clock

vars ==
  <<openApps, minimizedApps, selectedExercise, customDurations, phaseIndex,
    running, timer, muted, mutedRef, phaseInterval, tickInterval, sincePhase,
    runTime, cue, lastAct>>

appVars == <<openApps, minimizedApps>>

\* ------------------------------------------------------------ app registry
isAppOpen(app) == \E i \in 1..Len(openApps) : openApps[i] = app

isAppMinimized(app) == \E i \in 1..Len(minimizedApps) : minimizedApps[i] = app

\* prev.filter(a => a !== app).filter(Boolean)
Without(list, app) == SelectSeq(list, LAMBDA a : a # app /\ a # "")

\* ------------------------------------------------- derived render values
\* durations[phase] || dflt
DurationOr(d, phase, dflt) ==
  IF phase \in DOMAIN d /\ d[phase] # 0 THEN d[phase] ELSE dflt

Durations(ex, cd) == IF ex = "Custom" THEN cd ELSE EXERCISE_DURATIONS[ex]

\* mutant: the declared phases are not filtered
PhasesOfUnfiltered(ex, cd) == EXERCISE_PHASES[ex]

PhasesOf(ex, cd) ==
  SelectSeq(EXERCISE_PHASES[ex],
            LAMBDA phase : DurationOr(Durations(ex, cd), phase, 0) > 0)

CurrentPhaseOf(ex, cd, idx) ==
  IF idx \in 0..(Len(PhasesOf(ex, cd)) - 1)
  THEN PhasesOf(ex, cd)[idx + 1]
  ELSE undefined

durations == Durations(selectedExercise, customDurations)

phases == PhasesOf(selectedExercise, customDurations)

currentPhase == CurrentPhaseOf(selectedExercise, customDurations, phaseIndex)

\* ----------------------------------------------------------------- timers
NoInterval == [armed |-> FALSE, period |-> 0, rem |-> 0]

SetInterval(ms) == [armed |-> TRUE, period |-> ms, rem |-> ms]

\* the render values an effect depends on
Render(ex, cd, idx, run) ==
  [selectedExercise |-> ex, customDurations |-> cd, phaseIndex |-> idx,
   running |-> run]

ThisRender == Render(selectedExercise, customDurations, phaseIndex, running)

\* the object useSoundEffect('/sounds/chime.mp3') returns: the hook memoizes
\* it, so every render sees the same object
soundEffect == "/sounds/chime.mp3"

\* dependency list [running, currentPhase, durations, updatePhase]; updatePhase
\* is recreated when phases.length, running or soundEffect changes
PhaseDeps(r) ==
  <<r.running,
    CurrentPhaseOf(r.selectedExercise, r.customDurations, r.phaseIndex),
    Durations(r.selectedExercise, r.customDurations),
    <<Len(PhasesOf(r.selectedExercise, r.customDurations)), r.running, soundEffect>>>>

\* mutant: the interval is always armed with the default period
IntervalDurationDefault(r) == DefaultInterval * Second

\* mutant: no fallback, (durations[currentPhase] || 0) * 1000
IntervalDurationNoFallback(r) ==
  DurationOr(Durations(r.selectedExercise, r.customDurations),
             CurrentPhaseOf(r.selectedExercise, r.customDurations, r.phaseIndex),
             0) * Second

\* (durations[currentPhase] || 4) * 1000
IntervalDuration(r) ==
  DurationOr(Durations(r.selectedExercise, r.customDurations),
             CurrentPhaseOf(r.selectedExercise, r.customDurations, r.phaseIndex),
             DefaultInterval) * Second

\* mutant: the phase-advance effect returns no cleanup
PhaseEffectNoCleanup(interval, prev, next) ==
  IF PhaseDeps(prev) = PhaseDeps(next) THEN interval
  ELSE IF next.running THEN SetInterval(IntervalDuration(next))
  ELSE interval

\* mutant: the phase-advance effect runs after every render
PhaseEffectEveryRender(interval, prev, next) ==
  IF next.running THEN SetInterval(IntervalDuration(next)) ELSE NoInterval

\* the phase-advance effect after a render: prev and next are the renders
PhaseEffect(interval, prev, next) ==
  IF PhaseDeps(prev) = PhaseDeps(next) THEN interval
  ELSE IF next.running THEN SetInterval(IntervalDuration(next))
  ELSE NoInterval

\* mutant: the elapsed-ticker effect returns no cleanup
TickEffectNoCleanup(interval, prev, next) ==
  IF ~prev.running /\ next.running THEN SetInterval(TickPeriod) ELSE interval

\* the elapsed-ticker effect after a render
TickEffect(interval, prev, next) ==
  IF prev.running = next.running THEN interval
  ELSE IF next.running THEN SetInterval(TickPeriod)
  ELSE NoInterval

\* commit one render of the component: new state, then its effects
Commit(next) ==
  /\ selectedExercise' = next.selectedExercise
  /\ customDurations' = next.customDurations
  /\ phaseIndex' = next.phaseIndex
  /\ running' = next.running
  /\ phaseInterval' = PhaseEffect(phaseInterval, ThisRender, next)
  /\ tickInterval' = TickEffect(tickInterval, ThisRender, next)

\* mutant: resetExercise stops the run and keeps the phase index
resetExerciseKeepIndex(r) == [r EXCEPT !.running = FALSE]

\* resetExercise: setPhaseIndex(0); setRunning(false)
resetExercise(r) == [r EXCEPT !.phaseIndex = 0, !.running = FALSE]

\* mutant: the ref is never synchronised, updatePhase sees a stale flag
MutedRefStale(ref, m) == ref

\* the [muted] effect: mutedRef.current = muted
MutedRefEffect(ref, m) == m

\* ------------------------------------------------------------------- Init
\* the state after mount: useState initial values, then the mount effects
\* (useRef(false) followed by the [muted] effect)
Init ==
  /\ openApps = <<>>
  /\ minimizedApps = <<>>
  /\ selectedExercise = "4-7-8 Breathing"
  /\ customDurations = DefaultCustomDurations
  /\ phaseIndex = 0
  /\ running = FALSE
  /\ timer = 0
  /\ muted = TRUE
  /\ mutedRef = MutedRefEffect(FALSE, TRUE)
  /\ phaseInterval = NoInterval
  /\ tickInterval = NoInterval
  /\ sincePhase = 0
  /\ runTime = 0
  /\ cue = "none"
  /\ lastAct = "init"

\* ---------------------------------------------------------------- actions
\* the two lists of the registry
Registry(open, minimized) == [openApps |-> open, minimizedApps |-> minimized]

ThisRegistry == Registry(openApps, minimizedApps)

\* list.some(a => a === app)
Has(list, app) == \E i \in 1..Len(list) : list[i] = app

\* mutant: openApp leaves the minimized list alone
openAppKeepsMinimized(reg, app) ==
  IF Has(reg.openApps, app) /\ ~Has(reg.minimizedApps, app) THEN reg
  ELSE Registry(Append(reg.openApps, app), reg.minimizedApps)

\* the lists after openApp(app)
openAppResult(reg, app) ==
  IF Has(reg.openApps, app) /\ ~Has(reg.minimizedApps, app) THEN reg
  ELSE Registry(Append(reg.openApps, app), Without(reg.minimizedApps, app))

\* the lists after closeApp(app)
closeAppResult(reg, app) == Registry(Without(reg.openApps, app), reg.minimizedApps)

\* the lists after minimizeApp(app)
minimizeAppResult(reg, app) ==
  Registry(reg.openApps, Append(reg.minimizedApps, app))

\* app.tsx openApp
openApp(app) ==
  /\ ~(isAppOpen(app) /\ ~isAppMinimized(app))
  /\ openApps' = openAppResult(ThisRegistry, app).openApps
  /\ minimizedApps' = openAppResult(ThisRegistry, app).minimizedApps
  /\ UNCHANGED <<lastAct, selectedExercise, customDurations, phaseIndex, running, timer,
                 muted, mutedRef, phaseInterval, tickInterval, sincePhase,
                 runTime>>
  /\ cue' = "none"

\* app.tsx closeApp; the Breathing component stays mounted
closeApp(app) ==
  /\ isAppOpen(app)
  /\ openApps' = closeAppResult(ThisRegistry, app).openApps
  /\ UNCHANGED <<lastAct, minimizedApps, selectedExercise, customDurations, phaseIndex,
                 running, timer, muted, mutedRef, phaseInterval, tickInterval,
                 sincePhase, runTime>>
  /\ cue' = "none"

\* the control button while not running: setRunning(true)
Start ==
  /\ isAppOpen("breathing")
  /\ ~running
  /\ Commit([ThisRender EXCEPT !.running = TRUE])
  /\ sincePhase' = 0
  /\ runTime' = 0
  /\ cue' = "none"
  /\ lastAct' = "start"
  /\ UNCHANGED <<appVars, timer, muted, mutedRef>>

\* the control button while running: resetExercise()
Reset ==
  /\ isAppOpen("breathing")
  /\ running
  /\ Commit(resetExercise(ThisRender))
  /\ sincePhase' = 0
  /\ runTime' = 0
  /\ cue' = "none"
  /\ lastAct' = "reset"
  /\ UNCHANGED <<appVars, timer, muted, mutedRef>>

\* the state after the select's onChange: the render with the new exercise,
\* then the reset effect and the render it causes
SelectResult(r, e) ==
  IF e = r.selectedExercise THEN r
  ELSE resetExercise([r EXCEPT !.selectedExercise = e])

\* the intervals after the two renders of an exercise change
SelectIntervals(e) ==
  LET mid == [ThisRender EXCEPT !.selectedExercise = e]
      end == SelectResult(ThisRender, e)
  IN  [phase |-> PhaseEffect(PhaseEffect(phaseInterval, ThisRender, mid),
                             mid, end),
       tick |-> TickEffect(TickEffect(tickInterval, ThisRender, mid), mid, end)]

\* onChange of the exercise select, however the event is delivered
ChangeExercise(e) ==
  /\ e # selectedExercise
  /\ selectedExercise' = SelectResult(ThisRender, e).selectedExercise
  /\ phaseIndex' = SelectResult(ThisRender, e).phaseIndex
  /\ running' = SelectResult(ThisRender, e).running
  /\ phaseInterval' = SelectIntervals(e).phase
  /\ tickInterval' = SelectIntervals(e).tick
  /\ sincePhase' = 0
  /\ runTime' = 0
  /\ cue' = "none"
  /\ lastAct' = (IF running THEN "selectRunning" ELSE "select")
  /\ UNCHANGED <<appVars, customDurations, timer, muted, mutedRef>>

\* mutant: the select stays enabled during a run
SelectNeverDisabled == FALSE

\* disabled={running} of the exercise select
SelectDisabled == running

\* the exercise select of the rendered window
SelectExercise ==
  /\ isAppOpen("breathing")
  /\ ~SelectDisabled
  /\ \E e \in Exercise : ChangeExercise(e)

\* mutant: an edit to 0 is stored as 1
EditResultAtLeastOne(cd, phase, value) ==
  [cd EXCEPT ![phase] = IF value = 0 THEN 1 ELSE value]

\* setCustomDurations(prev => ({...prev, [phase]: Number(value)}))
EditResult(cd, phase, value) == [cd EXCEPT ![phase] = value]

\* mutant: the custom inputs stay enabled during a run
InputNeverDisabled == FALSE

\* disabled={running} of the custom duration inputs
InputDisabled == running

\* a custom duration input: rendered for Custom
EditCustom ==
  /\ isAppOpen("breathing")
  /\ selectedExercise = "Custom"
  /\ ~InputDisabled
  /\ \E phase \in Phase, value \in CustomValues :
       /\ customDurations[phase] # value
       /\ Commit([ThisRender EXCEPT
                    !.customDurations = EditResult(customDurations, phase, value)])
  /\ lastAct' = "edit"
  /\ cue' = "none"
  /\ UNCHANGED <<appVars, timer, muted, mutedRef, sincePhase, runTime>>

\* the audio button: setMuted(prev => !prev), then the render with its effects
ToggleMute ==
  /\ isAppOpen("breathing")
  /\ muted' = ~muted
  /\ mutedRef' = MutedRefEffect(mutedRef, muted')
  /\ Commit(ThisRender)
  /\ UNCHANGED <<lastAct, appVars, timer, sincePhase, runTime>>
  /\ cue' = "none"

\* if (!mutedRef.current) soundEffect.play()
PlayCue(ref) == IF ref THEN "silent" ELSE "chime"

\* mutant: the index stops at the last phase instead of wrapping
NextIndexNoWrap(prevIndex, length) ==
  IF prevIndex = NaN \/ length = 0 THEN NaN
  ELSE IF prevIndex + 1 < length THEN prevIndex + 1
  ELSE prevIndex

\* the index updatePhase sets: (prevIndex + 1) % phases.length
NextIndex(prevIndex, length) == JsMod(JsInc(prevIndex), length)

\* the phase-advance interval is due: updatePhase runs, the interval repeats
\* or, when the phase changed, the effect replaces it
PhaseFire ==
  /\ phaseInterval.armed
  /\ phaseInterval.rem = 0
  /\ running
  /\ cue' = PlayCue(mutedRef)
  /\ LET next == [ThisRender EXCEPT
                    !.phaseIndex = NextIndex(phaseIndex, Len(phases))]
         repeated == [phaseInterval EXCEPT !.rem = phaseInterval.period]
     IN  /\ phaseIndex' = next.phaseIndex
         /\ phaseInterval' = PhaseEffect(repeated, ThisRender, next)
  /\ sincePhase' = 0
  /\ lastAct' = "advance"
  /\ UNCHANGED <<appVars, selectedExercise, customDurations, running, timer,
                 muted, mutedRef, tickInterval, runTime>>

\* mutant: the ticker counts two per tick
TickResultTwo(prev) == prev + 2

\* prev => prev + 1
TickResult(prev) == prev + 1

\* the elapsed ticker is due: setTimer(prev => prev + 1), then the render
\* with its effects
TickFire ==
  /\ tickInterval.armed
  /\ tickInterval.rem = 0
  /\ timer' = TickResult(timer)
  /\ tickInterval' = TickEffect([tickInterval EXCEPT !.rem = tickInterval.period],
                                ThisRender, ThisRender)
  /\ phaseInterval' = PhaseEffect(phaseInterval, ThisRender, ThisRender)
  /\ lastAct' = "tick"
  /\ UNCHANGED <<appVars, selectedExercise, customDurations, phaseIndex,
                 running, muted, mutedRef, sincePhase, runTime>>
  /\ cue' = "none"

\* an interval after ms milliseconds
Elapse(interval, ms) ==
  IF interval.armed THEN [interval EXCEPT !.rem = interval.rem - ms]
  ELSE interval

\* one second passes while a timer is armed and none is due
TimePass(cap) ==
  /\ phaseInterval.armed \/ tickInterval.armed
  /\ phaseInterval.armed => phaseInterval.rem >= Second
  /\ tickInterval.armed => tickInterval.rem >= Second
  /\ timer < cap
  /\ phaseInterval' = Elapse(phaseInterval, Second)
  /\ tickInterval' = Elapse(tickInterval, Second)
  /\ sincePhase' = sincePhase + Second
  /\ runTime' = runTime + Second
  /\ lastAct' = "time"
  /\ UNCHANGED <<appVars, selectedExercise, customDurations, phaseIndex,
                 running, timer, muted, mutedRef>>
  /\ cue' = "none"

\* ---------------------------------------------------------- specifications
Next ==
  \/ openApp("breathing")
  \/ closeApp("breathing")
  \/ Start
  \/ Reset
  \/ SelectExercise
  \/ EditCustom
  \/ ToggleMute
  \/ PhaseFire
  \/ TickFire
  \/ TimePass(MaxTimer)

Spec == Init /\ [][Next]_vars

\* a change event delivered to the exercise select while it is disabled
DispatchChange ==
  /\ isAppOpen("breathing")
  /\ running
  /\ \E e \in Exercise : ChangeExercise(e)

NextDispatch ==
  \/ Next
  \/ DispatchChange

\* Spec, and change events that reach the select although it is disabled
SpecDispatch == Init /\ [][NextDispatch]_vars

\* a run that has just been started from the mounted state, for any exercise
InitElapsed ==
  /\ openApps = <<"breathing">>
  /\ minimizedApps = <<>>
  /\ selectedExercise \in Exercise
  /\ customDurations = DefaultCustomDurations
  /\ phaseIndex = 0
  /\ running = TRUE
  /\ timer = 0
  /\ muted = TRUE
  /\ mutedRef = MutedRefEffect(FALSE, TRUE)
  /\ phaseInterval = SetInterval(IntervalDuration(ThisRender))
  /\ tickInterval = SetInterval(TickPeriod)
  /\ sincePhase = 0
  /\ runTime = 0
  /\ cue = "none"
  /\ lastAct = "start"

NextElapsed ==
  \/ PhaseFire
  \/ TickFire
  \/ TimePass(MaxElapsed)

\* one uninterrupted run, long enough for the display to pass two minutes
SpecElapsed == InitElapsed /\ [][NextElapsed]_vars

\* the elapsed ticker is due, in a run without end: the counter is followed
\* up to MaxTimer and left there afterwards
TickFireLoop ==
  /\ tickInterval.armed
  /\ tickInterval.rem = 0
  /\ timer' = (IF timer < MaxTimer THEN TickResult(timer) ELSE timer)
  /\ tickInterval' = TickEffect([tickInterval EXCEPT !.rem = tickInterval.period],
                                ThisRender, ThisRender)
  /\ phaseInterval' = PhaseEffect(phaseInterval, ThisRender, ThisRender)
  /\ lastAct' = "tick"
  /\ cue' = "none"
  /\ UNCHANGED <<appVars, selectedExercise, customDurations, phaseIndex,
                 running, muted, mutedRef, sincePhase, runTime>>

\* one second passes, in a run without end: the run clock is followed up to
\* MaxTimer seconds and left there afterwards
TimePassLoop ==
  /\ phaseInterval.armed \/ tickInterval.armed
  /\ phaseInterval.armed => phaseInterval.rem >= Second
  /\ tickInterval.armed => tickInterval.rem >= Second
  /\ phaseInterval' = Elapse(phaseInterval, Second)
  /\ tickInterval' = Elapse(tickInterval, Second)
  /\ sincePhase' = sincePhase + Second
  /\ runTime' = (IF runTime < MaxTimer * Second THEN runTime + Second ELSE runTime)
  /\ lastAct' = "time"
  /\ cue' = "none"
  /\ UNCHANGED <<appVars, selectedExercise, customDurations, phaseIndex,
                 running, timer, muted, mutedRef>>

\* a run that has just been started on a non-empty sequence: any exercise,
\* and for Custom any map the editor can produce
InitLoop ==
  /\ openApps = <<"breathing">>
  /\ minimizedApps = <<>>
  /\ selectedExercise \in Exercise
  /\ customDurations \in
       [Phase -> CustomValues \cup {DefaultCustomDurations[ph] : ph \in Phase}]
  /\ selectedExercise # "Custom" => customDurations = DefaultCustomDurations
  /\ Len(phases) > 0
  /\ phaseIndex = 0
  /\ running = TRUE
  /\ timer = 0
  /\ muted \in BOOLEAN
  /\ mutedRef = MutedRefEffect(FALSE, muted)
  /\ phaseInterval = SetInterval(IntervalDuration(ThisRender))
  /\ tickInterval = SetInterval(TickPeriod)
  /\ sincePhase = 0
  /\ runTime = 0
  /\ cue = "none"
  /\ lastAct = "start"

NextLoop ==
  \/ PhaseFire
  \/ TickFireLoop
  \/ TimePassLoop

\* a run nobody resets, changes or closes; the event loop lets time pass and
\* runs every timer callback that is due
SpecLoop ==
  /\ InitLoop
  /\ [][NextLoop]_vars
  /\ WF_vars(PhaseFire)
  /\ WF_vars(TickFireLoop)
  /\ WF_vars(TimePassLoop)

\* the windows the registry hosts
Apps == {"notepad", "todo", "countdown", "pomodoro", "breathing", "ambient"}

\* the windows that are given an onMinimize callback
Minimizable == {"countdown", "pomodoro", "ambient"}

\* the window of an app is on screen, with its close and minimize controls
WindowShown(app) == isAppOpen(app) /\ ~isAppMinimized(app)

\* app.tsx minimizeApp
minimizeApp(app) ==
  /\ Len(minimizedApps) < MaxList
  /\ openApps' = minimizeAppResult(ThisRegistry, app).openApps
  /\ minimizedApps' = minimizeAppResult(ThisRegistry, app).minimizedApps
  /\ cue' = "none"
  /\ UNCHANGED <<lastAct, selectedExercise, customDurations, phaseIndex,
                 running, timer, muted, mutedRef, phaseInterval, tickInterval,
                 sincePhase, runTime>>

\* the toolbox opens or restores a window
OpenAny == \E app \in Apps : Len(openApps) < MaxList /\ openApp(app)

\* the close control of a window on screen
CloseAny == \E app \in Apps : WindowShown(app) /\ closeApp(app)

\* the minimize control of a window on screen
MinimizeAny == \E app \in Minimizable : WindowShown(app) /\ minimizeApp(app)

NextApp ==
  \/ OpenAny
  \/ CloseAny
  \/ MinimizeAny

\* the app registry alone: windows are opened, minimized, restored and closed
\* through the controls that are on screen
SpecApp == Init /\ [][NextApp]_vars

\* openApp(app) called in any state
CallOpen == \E app \in Apps : Len(openApps) < MaxList /\ openApp(app)

\* closeApp(app) called in any state
CallClose == \E app \in Apps : closeApp(app)

\* minimizeApp(app) called in any state, for the apps that pass onMinimize
CallMinimize == \E app \in Minimizable : minimizeApp(app)

NextCalls ==
  \/ CallOpen
  \/ CallClose
  \/ CallMinimize

\* the app registry alone: the three functions called in any order
SpecCalls == Init /\ [][NextCalls]_vars

\* ------------------------------------------------------------ the display
\* the decimal digit characters
Digit(d) == <<"0", "1", "2", "3", "4", "5", "6", "7", "8", "9">>[d + 1]

DigitValue(c) == CHOOSE d \in 0..9 : Digit(d) = c

\* String(n): the decimal digits of n
RECURSIVE ToDigits(_)
ToDigits(n) ==
  IF n < 10 THEN <<Digit(n)>> ELSE ToDigits(n \div 10) \o <<Digit(n % 10)>>

\* helpers/number padNumber: the digits of n, zero-padded to two
padNumber(n) == IF Len(ToDigits(n)) < 2 THEN <<"0">> \o ToDigits(n) ELSE ToDigits(n)

\* {padNumber(Math.floor(timer / 60))}:{padNumber(timer % 60)}
TimerDisplay(t) == padNumber(t \div 60) \o <<":">> \o padNumber(t % 60)

\* ----------------------------------------------------------------- claims
NoTimers == ~phaseInterval.armed /\ ~tickInterval.armed

\* a step in which the phase-advance callback ran
AdvanceStep == cue' # "none"

\* seconds configured for a phase of the current sequence
PhaseSeconds(phase) == DurationOr(durations, phase, 0)

\* C1: starting with an empty filtered sequence is a no-op: whenever the
\* sequence is empty the session is not running and no timer is scheduled.
C1_EmptyStartIsNoOp == Len(phases) = 0 => ~running /\ NoTimers

\* C2: while running with a non-empty sequence the phase-advance callback
\* runs exactly when duration(currentPhase) seconds have passed since the
\* phase was entered, never later and never before, and it moves the index
\* to (index + 1) mod length.
C2_PhaseLastsItsDuration ==
  [][/\ (AdvanceStep /\ Len(phases) > 0) =>
          /\ sincePhase = PhaseSeconds(currentPhase) * Second
          /\ phaseIndex' = (phaseIndex + 1) % Len(phases)
     /\ (running' /\ Len(phases') > 0) =>
          /\ currentPhase' # undefined
          /\ sincePhase' <= DurationOr(durations', currentPhase', 0) * Second
     /\ (phaseIndex' # phaseIndex /\ running') => AdvanceStep]_vars

\* C2 witness: the only phase of a single-phase sequence was re-entered
C2_SinglePhaseAdvanced ==
  /\ running
  /\ Len(phases) = 1
  /\ cue # "none"
  /\ phaseIndex = 0

\* C3: an exercise change forces phase index 0 and running false and
\* releases the timers, and applying the same change again to the resulting
\* state changes nothing.
C3_ExerciseChangeResets ==
  [][selectedExercise' # selectedExercise =>
       /\ phaseIndex' = 0
       /\ running' = FALSE
       /\ NoTimers'
       /\ SelectResult(ThisRender', selectedExercise') = ThisRender'
       /\ \A e \in Exercise :
            SelectResult(SelectResult(ThisRender, e), e) = SelectResult(ThisRender, e)]_vars

\* C3 witness: the exercise was changed during a run
C3_ChangedWhileRunning ==
  /\ lastAct = "selectRunning"
  /\ timer >= 5

\* C4: while the breathing window is closed no timer is scheduled.
C4_ClosedReleasesTimers == ~isAppOpen("breathing") => NoTimers

\* C5: while not running no timer is scheduled, the timers are released in
\* the step that leaves Running, and steps between idle states change
\* neither the phase index nor the elapsed counter.
C5_IdleHasNoTimers ==
  [][/\ ~running => NoTimers
     /\ ~running' => NoTimers'
     /\ (~running /\ ~running') => (phaseIndex' = phaseIndex /\ timer' = timer)]_vars

\* C5 witness: a run that counted seconds and advanced was reset
C5_ResetAfterRun ==
  /\ lastAct = "reset"
  /\ timer >= 5
  /\ ~running

\* C6: right after a start the elapsed counter is 0.
C6_FreshRunStartsAtZero == lastAct = "start" => timer = 0

\* C7: from a counter of 0, after N seconds of running the counter is N once
\* the tick of second N has run, and the display is the two-digit minutes
\* N div 60, a colon, and the two-digit seconds N mod 60.
C7_ElapsedCountsSeconds ==
  /\ timer * Second = (IF tickInterval.rem = 0 THEN runTime - Second ELSE runTime)
  /\ Len(TimerDisplay(timer)) = 5
  /\ TimerDisplay(timer)[3] = ":"
  /\ 10 * DigitValue(TimerDisplay(timer)[1]) + DigitValue(TimerDisplay(timer)[2])
       = timer \div 60
  /\ 10 * DigitValue(TimerDisplay(timer)[4]) + DigitValue(TimerDisplay(timer)[5])
       = timer % 60
  /\ timer = 65 => TimerDisplay(timer) = <<"0", "1", ":", "0", "5">>
  /\ timer = 125 => TimerDisplay(timer) = <<"0", "2", ":", "0", "5">>

\* C7 witness: 125 seconds of one run have been counted
C7_TwoMinutesFive ==
  /\ running
  /\ runTime = 125 * Second
  /\ timer = 125

\* C8: the phase-advance callback plays the chime if and only if muted is
\* false when it runs, and nothing else plays it.
C8_CueFollowsMuted ==
  [][/\ AdvanceStep => (cue' = "chime" <=> ~muted)
     /\ cue' = "chime" => AdvanceStep]_vars

\* C8 witness: an advance played the chime, so muted was toggled after mount
C8_ChimePlayed ==
  /\ cue = "chime"
  /\ running
  /\ phaseIndex > 0

\* position of a phase in the declared order of an exercise
DeclaredPos(e, phase) ==
  CHOOSE j \in 1..Len(EXERCISE_PHASES[e]) : EXERCISE_PHASES[e][j] = phase

\* C9: for every exercise the filtered sequence holds exactly the declared
\* phases with a positive duration, in the declared order.
C9_FilteredSequence ==
  /\ \A e \in Exercise :
       LET ps == PhasesOf(e, customDurations)
           d == Durations(e, customDurations)
           decl == EXERCISE_PHASES[e]
       IN  /\ \A i \in 1..Len(ps) :
                 /\ ps[i] \in DOMAIN d
                 /\ d[ps[i]] > 0
                 /\ \E j \in 1..Len(decl) : decl[j] = ps[i]
           /\ \A j \in 1..Len(decl) :
                 (decl[j] \in DOMAIN d /\ d[decl[j]] > 0) =>
                    \E i \in 1..Len(ps) : ps[i] = decl[j]
           /\ \A i, k \in 1..Len(ps) :
                 i < k => DeclaredPos(e, ps[i]) < DeclaredPos(e, ps[k])
  /\ PhasesOf("Diaphragmatic Breathing", customDurations) = <<"inhale", "exhale">>
  /\ PhasesOf("Box Breathing", customDurations)
       = <<"inhale", "holdInhale", "exhale", "holdExhale">>
  /\ PhasesOf("4-7-8 Breathing", customDurations) = <<"inhale", "holdInhale", "exhale">>

\* C9 witness: a custom sequence that lost two of its phases is running
C9_FilteredCustomRuns ==
  /\ selectedExercise = "Custom"
  /\ running
  /\ Len(phases) = 2
  /\ customDurations["holdInhale"] = 0
  /\ currentPhase = "exhale"

\* C10: with Custom selected and idle, editing a phase of the sequence to 0
\* removes exactly that phase, and editing it back to a positive value gives
\* the sequence there was before.
C10_EditRoundTrip ==
  (selectedExercise = "Custom" /\ ~running) =>
     \A phase \in Phase :
        customDurations[phase] > 0 =>
           LET zeroed == EditResult(customDurations, phase, 0)
           IN  /\ PhasesOf("Custom", zeroed)
                    = SelectSeq(phases, LAMBDA q : q # phase)
               /\ Len(PhasesOf("Custom", zeroed)) = Len(phases) - 1
               /\ \A value \in 1..(MaxCustom + 4) :
                    PhasesOf("Custom", EditResult(zeroed, phase, value)) = phases

\* C10 witness: a phase was edited to 0 and another one back to a positive value
C10_EditedToZeroAndBack ==
  /\ selectedExercise = "Custom"
  /\ ~running
  /\ lastAct = "edit"
  /\ customDurations["holdInhale"] = 0
  /\ customDurations["exhale"] = 1
  /\ phases = <<"inhale", "exhale", "holdExhale">>

\* C11: with a non-empty sequence the phase index is a valid index into it,
\* and the session never runs with an undefined current phase or an index
\* that is not a number.
C11_PhaseIndexValid ==
  /\ Len(phases) > 0 => phaseIndex \in 0..(Len(phases) - 1)
  /\ running => (currentPhase # undefined /\ phaseIndex # NaN)

\* C12: every step that leaves Running sets the phase index to 0, the index
\* is 0 in every idle state, and every run begins at the first phase of the
\* filtered sequence.
C12_NoPauseInPlace ==
  [][/\ ~running => phaseIndex = 0
     /\ ~running' => phaseIndex' = 0
     /\ (~running /\ running') =>
          /\ phaseIndex' = 0
          /\ Len(phases') > 0 => currentPhase' = phases'[1]]_vars

\* C12 witness: a run that had reached its second phase was reset
C12_ResetFromLaterPhase ==
  /\ lastAct = "reset"
  /\ ~running
  /\ phaseIndex = 0
  /\ selectedExercise = "Pursed Lip Breathing"
  /\ runTime = 0
  /\ timer >= 3

\* C13: the scheduled phase-advance timer belongs to the current render: it
\* is armed only while running, with the period of the current phase of the
\* selected exercise, counted from the entry of that phase; a step that
\* changes the running flag, the current phase or the Duration Map leaves
\* either no timer or a freshly armed one.
C13_NoStaleTimer ==
  [][/\ phaseInterval'.armed =>
          /\ running'
          /\ phaseInterval'.period = IntervalDuration(ThisRender')
          /\ phaseInterval'.rem + sincePhase' = phaseInterval'.period
     /\ (running' # running \/ currentPhase' # currentPhase \/ durations' # durations) =>
          \/ ~phaseInterval'.armed
          \/ (running' /\ phaseInterval'.rem = IntervalDuration(ThisRender'))
     /\ AdvanceStep =>
          (phaseInterval.armed /\ phaseInterval.period = IntervalDuration(ThisRender))]_vars

\* C13 witness: after an earlier run ended, a new run has just entered its
\* second phase on a freshly armed timer
C13_RestartedAfterChange ==
  /\ running
  /\ phaseIndex = 1
  /\ cue # "none"
  /\ timer >= 5
  /\ runTime < 5 * Second

\* C15: the phase-advance timer is armed with duration(currentPhase) x 1000
\* ms when the current phase has a positive duration and with 4000 ms
\* otherwise, never with 0 ms.
C15_ArmedPeriod ==
  phaseInterval.armed =>
     /\ phaseInterval.period > 0
     /\ PhaseSeconds(currentPhase) > 0 =>
          phaseInterval.period = PhaseSeconds(currentPhase) * 1000
     /\ PhaseSeconds(currentPhase) = 0 => phaseInterval.period = 4000

\* C15 witness: the timer is armed with the fallback period
C15_FallbackArmed ==
  /\ phaseInterval.armed
  /\ currentPhase = undefined
  /\ phaseInterval.period = 4000

\* C16: the custom Duration Map changes only in an edit made while idle with
\* Custom selected; every other step leaves it unchanged.
C16_OnlyEditsChangeCustom ==
  [][customDurations' # customDurations =>
       /\ ~running
       /\ ~running'
       /\ selectedExercise = "Custom"
       /\ selectedExercise' = "Custom"
       /\ lastAct' = "edit"
       /\ Cardinality({ph \in Phase : customDurations'[ph] # customDurations[ph]}) = 1]_vars

\* C16 witness: an edited map is still there during a run of another exercise
C16_EditedMapPersists ==
  /\ selectedExercise = "Box Breathing"
  /\ running
  /\ phaseIndex = 1
  /\ customDurations # DefaultCustomDurations

\* C17: a mute toggle changes only the muted flag and the ref that mirrors
\* it: the running flag, phase index, elapsed counter, selected exercise,
\* Duration Map and both timers stay as they are, in idle and running states.
C17_MuteChangesOnlyMuted ==
  [][muted' # muted =>
       /\ running' = running
       /\ phaseIndex' = phaseIndex
       /\ timer' = timer
       /\ selectedExercise' = selectedExercise
       /\ customDurations' = customDurations
       /\ phaseInterval' = phaseInterval
       /\ tickInterval' = tickInterval
       /\ sincePhase' = sincePhase]_vars

\* C17 witness: unmuted in the middle of a phase of a run
C17_UnmutedMidPhase ==
  /\ running
  /\ ~muted
  /\ sincePhase = 2 * Second
  /\ phaseInterval.rem = 2 * Second

\* C18: while running the selected exercise does not change, and as long as
\* the run goes on the Duration Map and the filtered sequence stay the same.
C18_ExerciseFixedWhileRunning ==
  [][running =>
       /\ selectedExercise' = selectedExercise
       /\ durations' = durations
       /\ phases' = phases]_vars

\* C18 witness: a run of a selected exercise has reached its third phase
C18_RunInThirdPhase ==
  /\ running
  /\ selectedExercise = "Box Breathing"
  /\ phaseIndex = 2

\* C14: in a run on a non-empty sequence that nobody resets, changes or
\* closes, every phase of the sequence is entered again and again, and the
\* index only ever moves to the next one in cyclic order.
C14_LoopsForever ==
  /\ \A i \in 0..3 : []<>(i < Len(phases) => (phaseIndex = i /\ cue # "none"))
  /\ [][phaseIndex' # phaseIndex =>
          phaseIndex' = (phaseIndex + 1) % Len(phases)]_vars

\* C14 witness: a four-phase run has wrapped round to its first phase
C14_WrappedRound ==
  /\ running
  /\ Len(phases) = 4
  /\ phaseIndex = 0
  /\ cue # "none"

\* open / minimized status of an app in a pair of lists
OpenIn(reg, app) == Has(reg.openApps, app)

MinimizedIn(reg, app) == Has(reg.minimizedApps, app)

\* two pairs of lists give every app but one the same status
SameOthers(r1, r2, app) ==
  \A other \in Apps \ {app} :
     /\ OpenIn(r1, other) <=> OpenIn(r2, other)
     /\ MinimizedIn(r1, other) <=> MinimizedIn(r2, other)

\* C19: from every state of the registry, openApp(a) leaves a open and not
\* minimized and changes nothing when a already was; closeApp(a) leaves a not
\* open; each of openApp, closeApp and minimizeApp leaves the status of every
\* other app as it was.
C19_RegistryCalls ==
  \A app \in Apps :
     LET opened == openAppResult(ThisRegistry, app)
         closed == closeAppResult(ThisRegistry, app)
         minimized == minimizeAppResult(ThisRegistry, app)
     IN  /\ OpenIn(opened, app)
         /\ ~MinimizedIn(opened, app)
         /\ (isAppOpen(app) /\ ~isAppMinimized(app)) => opened = ThisRegistry
         /\ ~OpenIn(closed, app)
         /\ MinimizedIn(minimized, app)
         /\ SameOthers(ThisRegistry, opened, app)
         /\ SameOthers(ThisRegistry, closed, app)
         /\ SameOthers(ThisRegistry, minimized, app)

\* C19 witness: a window was minimized and restored while another one is
\* minimized
C19_RestoredBesideOthers ==
  /\ Len(openApps) = 3
  /\ isAppOpen("countdown")
  /\ ~isAppMinimized("countdown")
  /\ openApps[1] = "countdown"
  /\ openApps[3] = "countdown"
  /\ isAppMinimized("pomodoro")

\* a list without repeated entries
NoRepeats(list) == \A i, j \in 1..Len(list) : list[i] = list[j] => i = j

\* C20: openApps and minimizedApps each hold an app name at most once, and
\* every minimized app is open.
C20_ListsAreSets ==
  /\ NoRepeats(openApps)
  /\ NoRepeats(minimizedApps)
  /\ \A app \in Apps : isAppMinimized(app) => isAppOpen(app)

====
